---- MODULE Spec2Model ----
(***************************************************************************)
(* Model of Helper.py: the MyNEU login / Husky Card balance scraper.       *)
(* Strings are sequences of one-character strings, so that substring       *)
(* search, slicing, case conversion and line splitting are computed as     *)
(* Python computes them.                                                   *)
(***************************************************************************)
EXTENDS Integers, Sequences, FiniteSets, TLC

VARIABLES
    pc,          \* position of the call / of the __main__ script
    ret,         \* value returned by the last call (None when it raised)
    err,         \* exception raised by the last call ("none" when it returned)
    link_url,    \* argument of correct_link
    file_exists, \* os.path.exists(file_name)
    file_text,   \* the bytes of the credentials file
    driver,      \* the browser session: the documents it shows and what was clicked
    link_name,   \* argument of find_link
    trace,       \* the calls __main__ has made so far, in order
    stdout       \* what has been printed

vars == <<pc, ret, err, link_url, file_exists, file_text, driver, link_name,
          trace, stdout>>

None == "None"
NoError == "none"

\* a session showing an empty document
NoDriver ==
    [page |-> "none", has_tabs |-> FALSE, tabs |-> <<>>, clicked |-> <<>>,
     links |-> <<>>, has_content |-> FALSE, elements |-> <<>>, tables |-> <<>>,
     title |-> "", login_form |-> FALSE, loads |-> FALSE]

-----------------------------------------------------------------------------
(* String literals of the source.                                          *)

JS_OPENWIN == <<"j","a","v","a","s","c","r","i","p","t",":","O","p","e","n","W","i","n","N","E","U">>
HTTP == <<"h","t","t","p",":","/","/">>
HTTPS == <<"h","t","t","p","s",":","/","/">>

-----------------------------------------------------------------------------
(* Python str primitives.                                                  *)

\* sub in s
Contains(sub, s) ==
    \E i \in 0..(Len(s) - Len(sub)) : SubSeq(s, i + 1, i + Len(sub)) = sub

\* s.find(c): 0-based index of the first occurrence of the character, or -1
Find(s, c) ==
    IF \E i \in 1..Len(s) : s[i] = c
    THEN (CHOOSE i \in 1..Len(s) : s[i] = c /\ \A j \in 1..(i - 1) : s[j] # c) - 1
    ELSE -1

\* s.rfind(c): 0-based index of the last occurrence of the character, or -1
RFind(s, c) ==
    IF \E i \in 1..Len(s) : s[i] = c
    THEN (CHOOSE i \in 1..Len(s) : s[i] = c /\ \A j \in (i + 1)..Len(s) : s[j] # c) - 1
    ELSE -1

\* Python's index normalisation for a slice bound: negative counts from the
\* end, then the bound is clipped to 0..len
ClipIndex(i, n) ==
    LET k == IF i < 0 THEN i + n ELSE i
    IN  IF k < 0 THEN 0 ELSE IF k > n THEN n ELSE k

\* s[start:end]
PySlice(s, start, end) ==
    LET a == ClipIndex(start, Len(s))
        b == ClipIndex(end, Len(s))
    IN  IF a < b THEN SubSeq(s, a + 1, b) ELSE <<>>

-----------------------------------------------------------------------------
(* correct_link                                                            *)

Returned(v) == [raised |-> FALSE, val |-> v]
Raised(e) == [raised |-> TRUE, val |-> e]

\* start = link_url.find("(") + 2
LinkStart(s) == Find(s, "(") + 2

\* end = link_url.rfind(")") - 1
LinkEnd(s) == RFind(s, ")") - 1

\* the slicing applied to every input (the three slicing lines dedented out
\* of the "if")
correct_link_SliceAlways(s) ==
    IF Contains(JS_OPENWIN, s) /\ ~Contains(HTTP, s) /\ ~Contains(HTTPS, s)
    THEN Raised("WebDriverException")
    ELSE Returned(PySlice(s, LinkStart(s), LinkEnd(s)))

\* the "no url inside" test left out
correct_link_NoUrlTest(s) ==
    IF Contains(JS_OPENWIN, s)
    THEN Returned(PySlice(s, LinkStart(s), LinkEnd(s)))
    ELSE Returned(s)

\* the offsets of the quotes forgotten: start = find("(") + 1, end = rfind(")")
correct_link_KeepQuotes(s) ==
    IF Contains(JS_OPENWIN, s)
    THEN IF ~Contains(HTTP, s) /\ ~Contains(HTTPS, s)
         THEN Raised("WebDriverException")
         ELSE Returned(PySlice(s, Find(s, "(") + 1, RFind(s, ")")))
    ELSE Returned(s)

correct_link(s) ==
    IF Contains(JS_OPENWIN, s)
    THEN IF ~Contains(HTTP, s) /\ ~Contains(HTTPS, s)
         THEN Raised("WebDriverException")
         ELSE Returned(PySlice(s, LinkStart(s), LinkEnd(s)))
    ELSE Returned(s)

-----------------------------------------------------------------------------
(* Inputs of correct_link: plain concatenations of at most MaxPieces       *)
(* pieces, and the same concatenations wrapped as javascript:OpenWinNEU(.) *)

MaxPieces == 4

Pieces == {JS_OPENWIN, HTTP, HTTPS, <<"(">>, <<")">>, <<"'">>, <<"a">>}

RECURSIVE Concat(_)
Concat(ps) == IF ps = <<>> THEN <<>> ELSE Head(ps) \o Concat(Tail(ps))

PlainInputs ==
    {Concat(ps) : ps \in UNION {[1..n -> Pieces] : n \in 0..MaxPieces}}

LinkInputs ==
    PlainInputs \cup {JS_OPENWIN \o <<"(">> \o p \o <<")">> : p \in PlainInputs}

InitLink ==
    /\ pc = "call"
    /\ ret = None
    /\ err = NoError
    /\ link_url \in LinkInputs
    /\ file_exists = FALSE
    /\ file_text = <<>>
    /\ driver = NoDriver
    /\ link_name = <<>>
    /\ trace = <<>>
    /\ stdout = <<>>

CorrectLink ==
    /\ pc = "call"
    /\ LET r == correct_link(link_url)
       IN  /\ ret' = IF r.raised THEN None ELSE r.val
           /\ err' = IF r.raised THEN r.val ELSE NoError
    /\ pc' = "done"
    /\ UNCHANGED <<link_url, file_exists, file_text, driver, link_name, trace, stdout>>

NextLink == CorrectLink

SpecLink == InitLink /\ [][NextLink]_vars

-----------------------------------------------------------------------------
(* Claims about correct_link.                                              *)

StartsWith(pre, s) == Len(s) >= Len(pre) /\ SubSeq(s, 1, Len(pre)) = pre
EndsWith(suf, s) == Len(s) >= Len(suf) /\ SubSeq(s, Len(s) - Len(suf) + 1, Len(s)) = suf

\* javascript:OpenWinNEU(<payload>)
IsScriptCall(s) ==
    /\ Len(s) >= Len(JS_OPENWIN) + 2
    /\ StartsWith(JS_OPENWIN \o <<"(">>, s)
    /\ EndsWith(<<")">>, s)
Payload(s) == SubSeq(s, Len(JS_OPENWIN) + 2, Len(s) - 1)

\* javascript:OpenWinNEU('<url>')
IsQuotedScriptCall(s) ==
    /\ IsScriptCall(s)
    /\ Len(Payload(s)) >= 2
    /\ Head(Payload(s)) = "'"
    /\ Payload(s)[Len(Payload(s))] = "'"
QuotedUrl(s) == SubSeq(Payload(s), 2, Len(Payload(s)) - 1)

HasAbsoluteUrl(s) == Contains(HTTP, s) \/ Contains(HTTPS, s)

\* C4: for javascript:OpenWinNEU('<url>') whose payload contains "http://" or
\* "https://", correct_link returns exactly <url>: the text between the first
\* "(" and the last ")" less one leading and one trailing quote character.
C4_ExtractsWrappedUrl ==
    (pc = "done" /\ IsQuotedScriptCall(link_url) /\ HasAbsoluteUrl(Payload(link_url)))
        => (err = NoError /\ ret = QuotedUrl(link_url))

C4_Witness ==
    /\ pc = "done"
    /\ link_url = JS_OPENWIN \o <<"(", "'">> \o HTTP \o <<"a", "'", ")">>
    /\ ret = HTTP \o <<"a">>

\* C5 as stated: every input that does not begin with javascript:OpenWinNEU is
\* returned unchanged, without an error.
C5_Original_NoPrefixUnchanged ==
    (pc = "done" /\ ~StartsWith(JS_OPENWIN, link_url))
        => (err = NoError /\ ret = link_url)

\* C5 amended: every input that does not contain javascript:OpenWinNEU
\* anywhere is returned unchanged, without an error.
C5_NoScriptUnchanged ==
    (pc = "done" /\ ~Contains(JS_OPENWIN, link_url))
        => (err = NoError /\ ret = link_url)

C5_Witness ==
    /\ pc = "done"
    /\ link_url = HTTP \o <<"(", "a", ")">>
    /\ ret = link_url
    /\ err = NoError

\* C6: for javascript:OpenWinNEU(<payload>) whose payload contains neither
\* "http://" nor "https://", correct_link raises and returns no URL.
C6_NoUrlRaises ==
    (pc = "done" /\ IsScriptCall(link_url) /\ ~HasAbsoluteUrl(Payload(link_url)))
        => (err = "WebDriverException" /\ ret = None)

C6_Witness ==
    /\ pc = "done"
    /\ link_url = JS_OPENWIN \o <<"(", "'", "a", "a", "'", ")">>
    /\ err = "WebDriverException"
    /\ ret = None

-----------------------------------------------------------------------------
(* get_login_credentials                                                   *)

\* open(file_name, "r"): text mode with universal newlines, "\r\n" and "\r"
\* are read as "\n"
RECURSIVE UniversalNewlines(_)
UniversalNewlines(t) ==
    IF t = <<>> THEN <<>>
    ELSE IF Head(t) = "\r"
         THEN IF Len(t) >= 2 /\ t[2] = "\n"
              THEN <<"\n">> \o UniversalNewlines(SubSeq(t, 3, Len(t)))
              ELSE <<"\n">> \o UniversalNewlines(Tail(t))
         ELSE <<Head(t)>> \o UniversalNewlines(Tail(t))

\* login_file.readlines(): each line keeps its "\n"; a last line without one
\* is a line too
RECURSIVE ReadLines(_)
ReadLines(t) ==
    IF t = <<>> THEN <<>>
    ELSE LET i == Find(t, "\n")
         IN  IF i = -1 THEN <<t>>
             ELSE <<SubSeq(t, 1, i + 1)>> \o ReadLines(SubSeq(t, i + 2, Len(t)))

IsSpace(c) == c \in {" ", "\t", "\n", "\r", "\f"}

RECURSIVE LStrip(_)
LStrip(s) == IF s # <<>> /\ IsSpace(Head(s)) THEN LStrip(Tail(s)) ELSE s

RECURSIVE RStrip(_)
RStrip(s) ==
    IF s # <<>> /\ IsSpace(s[Len(s)]) THEN RStrip(SubSeq(s, 1, Len(s) - 1)) ELSE s

\* str.strip()
Strip(s) == LStrip(RStrip(s))

\* username, password = contents[:2]
get_login_credentials_FirstTwo(exists, text) ==
    IF ~exists THEN Raised("AssertionError")
    ELSE LET contents == ReadLines(UniversalNewlines(text))
         IN  IF Len(contents) < 2 THEN Raised("ValueError")
             ELSE Returned(<<Strip(contents[1]), Strip(contents[2])>>)

get_login_credentials(exists, text) ==
    IF ~exists THEN Raised("AssertionError")
    ELSE LET contents == ReadLines(UniversalNewlines(text))
         IN  IF Len(contents) # 2 THEN Raised("ValueError")
             ELSE Returned(<<Strip(contents[1]), Strip(contents[2])>>)

MaxFileLen == 5

FileChars == {"a", "p", " ", "\n", "\r"}

FileTexts == UNION {[1..n -> FileChars] : n \in 0..MaxFileLen}

InitCreds ==
    /\ pc = "call"
    /\ ret = None
    /\ err = NoError
    /\ link_url = <<>>
    /\ file_exists \in BOOLEAN
    /\ file_text \in (IF file_exists THEN FileTexts ELSE {<<>>})
    /\ driver = NoDriver
    /\ link_name = <<>>
    /\ trace = <<>>
    /\ stdout = <<>>

GetLoginCredentials ==
    /\ pc = "call"
    /\ LET r == get_login_credentials(file_exists, file_text)
       IN  /\ ret' = IF r.raised THEN None ELSE r.val
           /\ err' = IF r.raised THEN r.val ELSE NoError
    /\ pc' = "done"
    /\ UNCHANGED <<link_url, file_exists, file_text, driver, link_name, trace, stdout>>

NextCreds == GetLoginCredentials

SpecCreds == InitCreds /\ [][NextCreds]_vars

-----------------------------------------------------------------------------
(* Claims about get_login_credentials.                                     *)

\* a line terminator at position i of the file: "\n", or a "\r" that is not
\* the first half of "\r\n"
IsLineEnd(t, i) ==
    \/ t[i] = "\n"
    \/ t[i] = "\r" /\ ~(i < Len(t) /\ t[i + 1] = "\n")

LineEnds(t) == {i \in 1..Len(t) : IsLineEnd(t, i)}

\* the number of lines of the file
LineCount(t) ==
    Cardinality(LineEnds(t)) + (IF t # <<>> /\ ~IsLineEnd(t, Len(t)) THEN 1 ELSE 0)

\* w is s with its surrounding whitespace removed
IsStripOf(w, s) ==
    /\ w = <<>> \/ (~IsSpace(Head(w)) /\ ~IsSpace(w[Len(w)]))
    /\ \E i \in 0..Len(s) :
          /\ i + Len(w) <= Len(s)
          /\ SubSeq(s, i + 1, i + Len(w)) = w
          /\ \A j \in (1..i) \cup ((i + Len(w) + 1)..Len(s)) : IsSpace(s[j])

\* the first line and the rest of a file that has at least one line end
FirstLineEnd(t) == CHOOSE i \in LineEnds(t) : \A j \in LineEnds(t) : i <= j

\* C9: an existing file of exactly two lines gives (username, password), each
\* stripped of surrounding whitespace; a missing file, or a file whose number
\* of lines is not two, gives an error and no pair.
C9_CredentialsOrError ==
    pc = "done" =>
        IF file_exists /\ LineCount(file_text) = 2
        THEN /\ err = NoError
             /\ Len(ret) = 2
             /\ IsStripOf(ret[1], SubSeq(file_text, 1, FirstLineEnd(file_text)))
             /\ IsStripOf(ret[2], SubSeq(file_text, FirstLineEnd(file_text) + 1, Len(file_text)))
        ELSE /\ err # NoError
             /\ ret = None

C9_Witness ==
    /\ pc = "done"
    /\ file_exists
    /\ file_text = <<" ", "a", "\n", "p", "\n">>
    /\ ret = << <<"a">>, <<"p">> >>

C9_WitnessOneLine ==
    /\ pc = "done"
    /\ file_exists
    /\ file_text = <<"a", "\n">>
    /\ err = "ValueError"

-----------------------------------------------------------------------------
(* Letter case: str.lower(), str.upper(), str.title()                      *)

UPPER == <<"A","B","C","D","E","F","G","H","I","J","K","L","M","N","O","P","Q","R","S","T","U","V","W","X","Y","Z">>
LOWER == <<"a","b","c","d","e","f","g","h","i","j","k","l","m","n","o","p","q","r","s","t","u","v","w","x","y","z">>

IsUpper(c) == \E i \in 1..Len(UPPER) : UPPER[i] = c
IsLower(c) == \E i \in 1..Len(LOWER) : LOWER[i] = c
IsCased(c) == IsUpper(c) \/ IsLower(c)

LowerChar(c) ==
    IF IsUpper(c) THEN LOWER[CHOOSE i \in 1..Len(UPPER) : UPPER[i] = c] ELSE c
UpperChar(c) ==
    IF IsLower(c) THEN UPPER[CHOOSE i \in 1..Len(LOWER) : LOWER[i] = c] ELSE c

Lower(s) == [i \in 1..Len(s) |-> LowerChar(s[i])]
Upper(s) == [i \in 1..Len(s) |-> UpperChar(s[i])]

\* str.title(): a letter that follows a letter is lowered, any other letter
\* is raised
Title(s) ==
    [i \in 1..Len(s) |->
        IF i > 1 /\ IsCased(s[i - 1]) THEN LowerChar(s[i]) ELSE UpperChar(s[i])]

-----------------------------------------------------------------------------
(* get_self_service_page                                                   *)

SELF_SERVICE == <<"S","e","l","f","-","S","e","r","v","i","c","e">>

\* the loop without its "break": the last matching tab is the one clicked
RECURSIVE LastSelfServiceTab(_, _, _)
LastSelfServiceTab(tabs, i, found) ==
    IF i > Len(tabs)
    THEN IF found = 0 THEN Raised("UnexpectedTagNameException") ELSE Returned(found)
    ELSE IF ~tabs[i].has_tab THEN Raised("NoSuchElementException")
    ELSE LastSelfServiceTab(tabs, i + 1, IF tabs[i].text = SELF_SERVICE THEN i ELSE found)

FindSelfServiceTab_NoBreak(tabs, i) == LastSelfServiceTab(tabs, i, 0)

\* the loop without its "else": after the loop self_service_tag is the last
\* tab looked at, and that one is clicked
RECURSIVE FindSelfServiceTab_NoElse(_, _)
FindSelfServiceTab_NoElse(tabs, i) ==
    IF i > Len(tabs)
    THEN IF tabs = <<>> THEN Raised("NameError") ELSE Returned(Len(tabs))
    ELSE IF ~tabs[i].has_tab THEN Raised("NoSuchElementException")
    ELSE IF tabs[i].text = SELF_SERVICE THEN Returned(i)
    ELSE FindSelfServiceTab_NoElse(tabs, i + 1)

\* the for/else loop over the "taboff" tabs from tab i on: the index of the
\* tab to click, or the exception raised
RECURSIVE FindSelfServiceTab(_, _)
FindSelfServiceTab(tabs, i) ==
    IF i > Len(tabs) THEN Raised("UnexpectedTagNameException")
    ELSE IF ~tabs[i].has_tab THEN Raised("NoSuchElementException")
    ELSE IF tabs[i].text = SELF_SERVICE THEN Returned(i)
    ELSE FindSelfServiceTab(tabs, i + 1)

\* element.click() on a tab: the session records the click and shows the
\* tab's page
Click(d, i) ==
    [d EXCEPT !.clicked = Append(d.clicked, i), !.page = "self-service"]

\* get_self_service_page(driver): the session afterwards, and the exception
\* raised if any
get_self_service_page(d) ==
    IF ~d.has_tabs THEN [driver |-> d, err |-> "NoSuchElementException"]
    ELSE LET r == FindSelfServiceTab(d.tabs, 1)
         IN  IF r.raised THEN [driver |-> d, err |-> r.val]
             ELSE [driver |-> Click(d, r.val), err |-> NoError]

MaxTabs == 3

TabTexts ==
    {SELF_SERVICE, Lower(SELF_SERVICE), Upper(SELF_SERVICE), <<"m","y","N","E","U"," ","C","e","n","t","r","a","l">>}

Tabs ==
    {[has_tab |-> TRUE, text |-> t] : t \in TabTexts}
        \cup {[has_tab |-> FALSE, text |-> <<>>]}

TabPages ==
    {NoDriver}
        \cup {[NoDriver EXCEPT !.page = "home", !.has_tabs = TRUE, !.tabs = ts] :
                 ts \in UNION {[1..n -> Tabs] : n \in 0..MaxTabs}}

InitTabs ==
    /\ pc = "call"
    /\ ret = None
    /\ err = NoError
    /\ link_url = <<>>
    /\ file_exists = FALSE
    /\ file_text = <<>>
    /\ driver \in TabPages
    /\ link_name = <<>>
    /\ trace = <<>>
    /\ stdout = <<>>

GetSelfServicePage ==
    /\ pc = "call"
    /\ LET r == get_self_service_page(driver)
       IN  /\ driver' = r.driver
           /\ err' = r.err
    /\ pc' = "done"
    /\ UNCHANGED <<ret, link_url, file_exists, file_text, link_name, trace, stdout>>

NextTabs == GetSelfServicePage

SpecTabs == InitTabs /\ [][NextTabs]_vars

-----------------------------------------------------------------------------
(* Claims about get_self_service_page.                                     *)

\* the tab container exists and every non-active tab has its label element
TabsWellFormed(d) ==
    d.has_tabs /\ \A i \in 1..Len(d.tabs) : d.tabs[i].has_tab

ExactTabs(d) == {i \in 1..Len(d.tabs) : d.tabs[i].text = SELF_SERVICE}
AnyCaseTabs(d) ==
    {i \in 1..Len(d.tabs) : Lower(d.tabs[i].text) = Lower(SELF_SERVICE)}

Min(S) == CHOOSE x \in S : \A y \in S : x <= y

\* C2 as stated: exactly one tab is clicked, the first non-active tab whose
\* text equals "Self-Service" ignoring case.
C2_Original_ClicksFirstAnyCase ==
    (pc = "done" /\ TabsWellFormed(driver) /\ AnyCaseTabs(driver) # {})
        => (err = NoError /\ driver.clicked = <<Min(AnyCaseTabs(driver))>>)

\* C2 amended: exactly one tab is clicked, the first non-active tab whose
\* text is exactly "Self-Service" (the comparison is case-sensitive).
C2_ClicksFirstExact ==
    (pc = "done" /\ TabsWellFormed(driver) /\ ExactTabs(driver) # {})
        => /\ err = NoError
           /\ driver.clicked = <<Min(ExactTabs(driver))>>
           /\ driver.page = "self-service"

C2_Witness ==
    /\ pc = "done"
    /\ Len(driver.tabs) = 3
    /\ driver.tabs[1].text = Lower(SELF_SERVICE)
    /\ driver.tabs[2].text = SELF_SERVICE
    /\ driver.tabs[3].text = SELF_SERVICE
    /\ driver.clicked = <<2>>

\* C3: when no non-active tab is labelled "Self-Service" (none in any casing
\* included, and no non-active tab at all included), the call raises
\* UnexpectedTagNameException, clicks nothing and stays on its page.
C3_NoTabRaises ==
    (pc = "done" /\ TabsWellFormed(driver) /\ ExactTabs(driver) = {})
        => /\ err = "UnexpectedTagNameException"
           /\ driver.clicked = <<>>
           /\ driver.page = "home"

C3_Witness ==
    /\ pc = "done"
    /\ Len(driver.tabs) = 2
    /\ TabsWellFormed(driver)
    /\ AnyCaseTabs(driver) = {}
    /\ err = "UnexpectedTagNameException"
    /\ driver.clicked = <<>>

-----------------------------------------------------------------------------
(* find_link                                                               *)

\* find_link returns no element: Python's None, as an element reference
NoElement == 0

\* the loop over the "a" elements from element i on: the position in the
\* document of the link returned, or NoElement when the loop runs out
RECURSIVE ScanLinks_CaseSensitive(_, _, _)
ScanLinks_CaseSensitive(links, name, i) ==
    IF i > Len(links) THEN NoElement
    ELSE IF links[i].text = name THEN i
    ELSE ScanLinks_CaseSensitive(links, name, i + 1)

RECURSIVE ScanLinks(_, _, _)
ScanLinks(links, name, i) ==
    IF i > Len(links) THEN NoElement
    ELSE IF Lower(links[i].text) = name THEN i
    ELSE ScanLinks(links, name, i + 1)

\* find_link(driver, link_name)
find_link(d, name) == ScanLinks(d.links, Lower(name), 1)

\* the name __main__ looks for
HUSKY_LINK == <<"h","u","s","k","y"," ","c","a","r","d"," ","a","c","c","o","u","n","t"," ","b","a","l","a","n","c","e","s">>
OTHER_LINK == <<"L","o","g","o","u","t">>

BALANCES_URL == <<"h","t","t","p",":","/","/","a">>

MaxLinks == 3

LinkTexts == {HUSKY_LINK, Title(HUSKY_LINK), Upper(HUSKY_LINK), OTHER_LINK}

LinkPages ==
    {[NoDriver EXCEPT !.page = "self-service", !.links = ls] :
        ls \in UNION {[1..n -> {[text |-> t, href |-> BALANCES_URL] : t \in LinkTexts}] :
                         n \in 0..MaxLinks}}

InitFind ==
    /\ pc = "call"
    /\ ret = NoElement
    /\ err = NoError
    /\ link_url = <<>>
    /\ file_exists = FALSE
    /\ file_text = <<>>
    /\ driver \in LinkPages
    /\ link_name \in LinkTexts
    /\ trace = <<>>
    /\ stdout = <<>>

FindLink ==
    /\ pc = "call"
    /\ ret' = find_link(driver, link_name)
    /\ pc' = "done"
    /\ UNCHANGED <<err, link_url, file_exists, file_text, driver, link_name, trace, stdout>>

NextFind == FindLink

SpecFind == InitFind /\ [][NextFind]_vars

-----------------------------------------------------------------------------
(* Claims about find_link.                                                 *)

MatchingLinks(d, name) ==
    {i \in 1..Len(d.links) : Lower(d.links[i].text) = Lower(name)}

\* C8: find_link returns the first link, in document order, whose text equals
\* the name ignoring case, the same link for every re-casing of the name, and
\* returns None without an error when no link matches.
C8_FirstLinkAnyCase ==
    pc = "done" =>
        /\ err = NoError
        /\ IF MatchingLinks(driver, link_name) = {}
           THEN ret = NoElement
           ELSE ret = Min(MatchingLinks(driver, link_name))
        /\ \A n \in {link_name, Lower(link_name), Upper(link_name), Title(link_name)} :
              find_link(driver, n) = ret

C8_Witness ==
    /\ pc = "done"
    /\ link_name = HUSKY_LINK
    /\ trace = <<>>
    /\ stdout = <<>>
    /\ Len(driver.links) = 3
    /\ driver.links[1].text = OTHER_LINK
    /\ driver.links[2].text = Upper(HUSKY_LINK)
    /\ driver.links[3].text = HUSKY_LINK
    /\ ret = 2

C8_WitnessNone ==
    /\ pc = "done"
    /\ link_name = Title(HUSKY_LINK)
    /\ trace = <<>>
    /\ stdout = <<>>
    /\ Len(driver.links) = 2
    /\ MatchingLinks(driver, link_name) = {}
    /\ ret = NoElement

-----------------------------------------------------------------------------
(* get_self_service_sections                                               *)

\* d[k] = v
SetItem(d, k, v) == [x \in (DOMAIN d) \cup {k} |-> IF x = k THEN v ELSE d[x]]

\* {key: value for ... in items}: built in order, a later item replacing an
\* earlier one of the same key
RECURSIVE DictFrom(_, _)
DictFrom(items, d) ==
    IF items = <<>> THEN d
    ELSE DictFrom(Tail(items), SetItem(d, Head(items)[1], Head(items)[2]))

\* the first mapping's entry kept where both have the key
DictUpdate_FirstWins(d1, d2) ==
    [k \in (DOMAIN d1) \cup (DOMAIN d2) |-> IF k \in DOMAIN d1 THEN d1[k] ELSE d2[k]]

\* dict(d1, **d2), d1.update(d2)
DictUpdate(d1, d2) ==
    [k \in (DOMAIN d1) \cup (DOMAIN d2) |-> IF k \in DOMAIN d2 THEN d2[k] ELSE d1[k]]

BOLD == "uportal-head14-bold"
TAUPE == "Taupe"

\* find_elements_by_class_name(c): the positions, in document order, of the
\* elements of class c, from position i on
RECURSIVE ByClassName(_, _, _)
ByClassName(elements, c, i) ==
    IF i > Len(elements) THEN <<>>
    ELSE (IF c \in elements[i].classes THEN <<i>> ELSE <<>>)
             \o ByClassName(elements, c, i + 1)

\* get_self_service_sections(driver): {title: element}
get_self_service_sections(d) ==
    IF ~d.has_content THEN Raised("NoSuchElementException")
    ELSE LET found1 == ByClassName(d.elements, BOLD, 1)
             sections1 ==
                 DictFrom([j \in 1..Len(found1) |->
                              <<d.elements[found1[j]].text, found1[j]>>], <<>>)
             found2 == ByClassName(d.elements, TAUPE, 1)
             sections2 ==
                 DictFrom([j \in 1..Len(found2) |->
                              <<Title(d.elements[found2[j]].text), found2[j]>>], <<>>)
         IN  Returned(DictUpdate(sections1, sections2))

MaxElements == 3

SectionTexts ==
    {<<"F","o">>, <<"F","O">>, <<"B","A">>, <<"F","O"," ","B","A">>, <<"F","o"," ","B","a">>}

Elements ==
    [classes : {{BOLD}, {TAUPE}, {BOLD, TAUPE}}, text : SectionTexts]

SectionPages ==
    {NoDriver}
        \cup {[NoDriver EXCEPT !.page = "self-service", !.has_content = TRUE,
                               !.elements = es] :
                 es \in UNION {[1..n -> Elements] : n \in 0..MaxElements}}

InitSections ==
    /\ pc = "call"
    /\ ret = <<>>
    /\ err = NoError
    /\ link_url = <<>>
    /\ file_exists = FALSE
    /\ file_text = <<>>
    /\ driver \in SectionPages
    /\ link_name = <<>>
    /\ trace = <<>>
    /\ stdout = <<>>

GetSelfServiceSections ==
    /\ pc = "call"
    /\ LET r == get_self_service_sections(driver)
       IN  /\ ret' = IF r.raised THEN <<>> ELSE r.val
           /\ err' = IF r.raised THEN r.val ELSE NoError
    /\ pc' = "done"
    /\ UNCHANGED <<link_url, file_exists, file_text, driver, link_name, trace, stdout>>

NextSections == GetSelfServiceSections

SpecSections == InitSections /\ [][NextSections]_vars

-----------------------------------------------------------------------------
(* Claims about get_self_service_sections.                                 *)

Max(S) == CHOOSE x \in S : \A y \in S : x >= y

\* the elements of the two families that carry label l in the mapping
Family1(d, l) ==
    {i \in 1..Len(d.elements) : BOLD \in d.elements[i].classes /\ d.elements[i].text = l}
Family2(d, l) ==
    {i \in 1..Len(d.elements) :
        TAUPE \in d.elements[i].classes /\ Title(d.elements[i].text) = l}

\* k is t in title case: the same letters, a letter being a capital exactly
\* when no letter comes right before it
IsTitleCaseOf(k, t) ==
    /\ Len(k) = Len(t)
    /\ \A p \in 1..Len(t) :
          /\ LowerChar(k[p]) = LowerChar(t[p])
          /\ IsCased(k[p]) => (IsUpper(k[p]) <=> (p = 1 \/ ~IsCased(t[p - 1])))

\* C7: the merged mapping has the first family's labels as they are and the
\* second family's labels in title case; a label of both families maps to the
\* second family's element, a label of one family to that family's element.
C7_SecondFamilyWins ==
    (pc = "done" /\ driver.has_content) =>
        /\ err = NoError
        /\ DOMAIN ret =
              {driver.elements[i].text :
                  i \in {j \in 1..Len(driver.elements) : BOLD \in driver.elements[j].classes}}
              \cup {Title(driver.elements[i].text) :
                  i \in {j \in 1..Len(driver.elements) : TAUPE \in driver.elements[j].classes}}
        /\ \A l \in DOMAIN ret :
              IF Family2(driver, l) # {}
              THEN ret[l] = Max(Family2(driver, l))
              ELSE ret[l] = Max(Family1(driver, l))
        /\ \A i \in 1..Len(driver.elements) :
              IsTitleCaseOf(Title(driver.elements[i].text), driver.elements[i].text)

C7_Witness ==
    /\ pc = "done"
    /\ driver.elements =
          << [classes |-> {TAUPE}, text |-> <<"B","A">>],
             [classes |-> {TAUPE}, text |-> <<"F","O">>],
             [classes |-> {BOLD}, text |-> <<"F","o">>] >>
    /\ DOMAIN ret = {<<"F","o">>, <<"B","a">>}
    /\ ret[<<"F","o">>] = 2

-----------------------------------------------------------------------------
(* grouper, get_balance_data                                               *)

\* grouper(iterable, 2): zip_longest of one iterator taken twice, so the
\* items in pairs, a last odd item paired with the fill value None
RECURSIVE grouper(_)
grouper(cells) ==
    IF Len(cells) = 0 THEN <<>>
    ELSE IF Len(cells) = 1 THEN << <<cells[1], None>> >>
    ELSE << <<cells[1], cells[2]>> >> \o grouper(SubSeq(cells, 3, Len(cells)))

\* {k.text: v.text for k, v in pairs}: reading .text of None raises
RECURSIVE TextDict(_, _)
TextDict(pairs, d) ==
    IF pairs = <<>> THEN Returned(d)
    ELSE IF Head(pairs)[1] = None \/ Head(pairs)[2] = None
         THEN Raised("AttributeError")
         ELSE TextDict(Tail(pairs), SetItem(d, Head(pairs)[1], Head(pairs)[2]))

\* the loop of get_balance_data over the tables from table i on, contents
\* being the mapping collected so far; a table counts when its blockquote
\* holds a "Title" element
RECURSIVE CollectTables(_, _, _)
CollectTables(tables, i, contents) ==
    IF i > Len(tables) THEN Returned(contents)
    ELSE IF ~tables[i].titled THEN CollectTables(tables, i + 1, contents)
    ELSE LET r == TextDict(grouper(tables[i].cells), <<>>)
         IN  IF r.raised THEN r
             ELSE CollectTables(tables, i + 1, DictUpdate(contents, r.val))

get_balance_data(d) == CollectTables(d.tables, 1, <<>>)

MaxCells == 3
MaxTables == 2

CellTexts == {"A", "B", "1"}

CellLists == UNION {[1..n -> CellTexts] : n \in 0..MaxCells}

BalancePages ==
    {[NoDriver EXCEPT !.page = "balances", !.tables = ts] :
        ts \in UNION {[1..n -> [titled : BOOLEAN, cells : CellLists]] : n \in 0..MaxTables}
               \cup {<<[titled |-> TRUE, cells |-> <<"A", "1", "B", "2", "C", "3">>]>>}}

InitBalance ==
    /\ pc = "call"
    /\ ret = <<>>
    /\ err = NoError
    /\ link_url = <<>>
    /\ file_exists = FALSE
    /\ file_text = <<>>
    /\ driver \in BalancePages
    /\ link_name = <<>>
    /\ trace = <<>>
    /\ stdout = <<>>

GetBalanceData ==
    /\ pc = "call"
    /\ LET r == get_balance_data(driver)
       IN  /\ ret' = IF r.raised THEN <<>> ELSE r.val
           /\ err' = IF r.raised THEN r.val ELSE NoError
    /\ pc' = "done"
    /\ UNCHANGED <<link_url, file_exists, file_text, driver, link_name, trace, stdout>>

NextBalance == GetBalanceData

SpecBalance == InitBalance /\ [][NextBalance]_vars

-----------------------------------------------------------------------------
(* Claims about get_balance_data.                                          *)

\* the label cells of the page: <<table, position>> of every first cell of
\* a pair, in the tables that count
LabelCells(d) ==
    UNION {{<<t, i>> : i \in {j \in 1..Len(d.tables[t].cells) : j % 2 = 1}} :
              t \in {u \in 1..Len(d.tables) : d.tables[u].titled}}

Before(p, q) == p[1] < q[1] \/ (p[1] = q[1] /\ p[2] <= q[2])

\* the value cell that follows label cell p, or the absence marker
ValueAfter(d, p) ==
    IF p[2] + 1 <= Len(d.tables[p[1]].cells)
    THEN d.tables[p[1]].cells[p[2] + 1]
    ELSE None

PairedMapping(d, m) ==
    /\ DOMAIN m = {d.tables[p[1]].cells[p[2]] : p \in LabelCells(d)}
    /\ \A p \in LabelCells(d) :
          (\A q \in LabelCells(d) :
              d.tables[q[1]].cells[q[2]] = d.tables[p[1]].cells[p[2]] => Before(q, p))
              => m[d.tables[p[1]].cells[p[2]]] = ValueAfter(d, p)

\* C1: the call returns normally with the mapping that pairs the Content
\* cells of each table two at a time; the last label of an odd-length cell
\* list is in the mapping, mapped to the absence marker.
C1_PairsCellsOddIncluded ==
    pc = "done" => (err = NoError /\ PairedMapping(driver, ret))

\* What the code does keep: when every table that counts has an even number
\* of Content cells, the call returns the paired mapping.
BalanceEvenTablesPaired ==
    (pc = "done" /\ \A t \in 1..Len(driver.tables) :
                       driver.tables[t].titled => Len(driver.tables[t].cells) % 2 = 0)
        => (err = NoError /\ PairedMapping(driver, ret))

BalanceExamplePaired ==
    /\ pc = "done"
    /\ driver.tables = <<[titled |-> TRUE, cells |-> <<"A", "1", "B", "2", "C", "3">>]>>
    /\ ret = [l \in {"A", "B", "C"} |-> IF l = "A" THEN "1" ELSE IF l = "B" THEN "2" ELSE "3"]

-----------------------------------------------------------------------------
(* login, get_dining_dollars and the __main__ script                       *)

BALANCES_TITLE == "myNEU: View HuskyCard Balances"
MEAL_PLAN == "Spring 15 Meal Plan"

\* login(username, password): opens the login page, fills the form found by
\* its ids and clicks the button; a page without the form raises
login(d) ==
    IF ~d.login_form
    THEN [driver |-> [d EXCEPT !.page = "login"], err |-> "NoSuchElementException"]
    ELSE [driver |-> [d EXCEPT !.page = "home"], err |-> NoError]

\* driver.get(url)
Get(d) ==
    IF ~d.loads
    THEN [driver |-> d, err |-> "WebDriverException"]
    ELSE [driver |-> [d EXCEPT !.page = "balances"], err |-> NoError]

\* data.get(key)
DictGet(data, key) == IF key \in DOMAIN data THEN data[key] ELSE None

\* the page title not asserted
get_dining_dollars_NoAssert(d) ==
    LET data == get_balance_data(d)
    IN  IF data.raised THEN data ELSE Returned(DictGet(data.val, MEAL_PLAN))

get_dining_dollars(d) ==
    IF d.title # BALANCES_TITLE THEN Raised("AssertionError")
    ELSE LET data == get_balance_data(d)
         IN  IF data.raised THEN data ELSE Returned(DictGet(data.val, MEAL_PLAN))

\* The documents the site serves to one run: the login page (with its form
\* or not), the tabs of the page after login, the links of the page behind
\* the tab, and the title and tables of the page the corrected link loads.
MainFiles == {<<"a", "\n", "p", "\n">>, <<"a", "\n">>}

MainTabs ==
    { << [has_tab |-> TRUE, text |-> SELF_SERVICE] >>,
      << [has_tab |-> TRUE, text |-> Lower(SELF_SERVICE)] >>,
      << >> }

MainHrefs ==
    { BALANCES_URL,
      JS_OPENWIN \o <<"(", "'">> \o BALANCES_URL \o <<"'", ")">>,
      JS_OPENWIN \o <<"(", "'", "a", "'", ")">> }

MainLinks ==
    { << [text |-> OTHER_LINK, href |-> BALANCES_URL] >> }
        \cup { << [text |-> OTHER_LINK, href |-> BALANCES_URL],
                  [text |-> Title(HUSKY_LINK), href |-> h] >> : h \in MainHrefs }

MainTables ==
    { << [titled |-> TRUE, cells |-> <<MEAL_PLAN, "42.00">>] >>,
      << [titled |-> TRUE, cells |-> <<"Husky Dollars", "1.00">>] >>,
      << [titled |-> TRUE, cells |-> <<MEAL_PLAN, "42.00", "Husky Dollars">>] >> }

MainSites ==
    { [NoDriver EXCEPT !.login_form = f, !.has_tabs = ht, !.tabs = ts,
                       !.links = ls, !.loads = l, !.title = ti, !.tables = tb] :
        f \in BOOLEAN, ht \in BOOLEAN, ts \in MainTabs, ls \in MainLinks, l \in BOOLEAN,
        ti \in {BALANCES_TITLE, "myNEU"}, tb \in MainTables }

InitMain ==
    /\ pc = "get_login_credentials"
    /\ ret = None
    /\ err = NoError
    /\ link_url = <<>>
    /\ file_exists \in BOOLEAN
    /\ file_text \in (IF file_exists THEN MainFiles ELSE {<<>>})
    /\ driver \in MainSites
    /\ link_name = HUSKY_LINK
    /\ trace = <<>>
    /\ stdout = <<>>

\* username, password = get_login_credentials("creds.txt")
MainCredentials ==
    /\ pc = "get_login_credentials"
    /\ trace' = Append(trace, "get_login_credentials")
    /\ LET r == get_login_credentials(file_exists, file_text)
       IN  /\ ret' = IF r.raised THEN None ELSE r.val
           /\ err' = IF r.raised THEN r.val ELSE NoError
           /\ pc' = IF r.raised THEN "aborted" ELSE "login"
    /\ UNCHANGED <<link_url, file_exists, file_text, driver, link_name, stdout>>

\* driver = login(username, password)
MainLogin ==
    /\ pc = "login"
    /\ trace' = Append(trace, "login")
    /\ LET r == login(driver)
       IN  /\ driver' = r.driver
           /\ err' = r.err
           /\ pc' = IF r.err # NoError THEN "aborted" ELSE "get_self_service_page"
    /\ UNCHANGED <<ret, link_url, file_exists, file_text, link_name, stdout>>

\* get_self_service_page(driver)
MainSelfService ==
    /\ pc = "get_self_service_page"
    /\ trace' = Append(trace, "get_self_service_page")
    /\ LET r == get_self_service_page(driver)
       IN  /\ driver' = r.driver
           /\ err' = r.err
           /\ pc' = IF r.err # NoError THEN "aborted" ELSE "find_link"
    /\ UNCHANGED <<ret, link_url, file_exists, file_text, link_name, stdout>>

\* link = find_link(driver, "husky card account balances").get_attribute("href")
\* get_attribute of None raises
MainFindLink ==
    /\ pc = "find_link"
    /\ trace' = Append(trace, "find_link")
    /\ LET link == find_link(driver, link_name)
       IN  IF link = NoElement
           THEN /\ err' = "AttributeError"
                /\ pc' = "aborted"
                /\ UNCHANGED link_url
           ELSE /\ link_url' = driver.links[link].href
                /\ err' = NoError
                /\ pc' = "correct_link"
    /\ UNCHANGED <<ret, file_exists, file_text, driver, link_name, stdout>>

\* correct_link(link), the argument of driver.get
MainCorrectLink ==
    /\ pc = "correct_link"
    /\ trace' = Append(trace, "correct_link")
    /\ LET r == correct_link(link_url)
       IN  /\ ret' = IF r.raised THEN None ELSE r.val
           /\ err' = IF r.raised THEN r.val ELSE NoError
           /\ pc' = IF r.raised THEN "aborted" ELSE "get"
    /\ UNCHANGED <<link_url, file_exists, file_text, driver, link_name, stdout>>

\* driver.get(correct_link(link))
MainGet ==
    /\ pc = "get"
    /\ trace' = Append(trace, "get")
    /\ LET r == Get(driver)
       IN  /\ driver' = r.driver
           /\ err' = r.err
           /\ pc' = IF r.err # NoError THEN "aborted" ELSE "get_dining_dollars"
    /\ UNCHANGED <<ret, link_url, file_exists, file_text, link_name, stdout>>

\* get_dining_dollars(driver), the argument of print
MainDiningDollars ==
    /\ pc = "get_dining_dollars"
    /\ trace' = Append(trace, "get_dining_dollars")
    /\ LET r == get_dining_dollars(driver)
       IN  /\ ret' = IF r.raised THEN None ELSE r.val
           /\ err' = IF r.raised THEN r.val ELSE NoError
           /\ pc' = IF r.raised THEN "aborted" ELSE "print"
    /\ UNCHANGED <<link_url, file_exists, file_text, driver, link_name, stdout>>

\* print(get_dining_dollars(driver)), and the script ends
MainPrint ==
    /\ pc = "print"
    /\ trace' = Append(trace, "print")
    /\ stdout' = Append(stdout, ret)
    /\ pc' = "exit"
    /\ UNCHANGED <<ret, err, link_url, file_exists, file_text, driver, link_name>>

NextMain ==
    \/ MainCredentials
    \/ MainLogin
    \/ MainSelfService
    \/ MainFindLink
    \/ MainCorrectLink
    \/ MainGet
    \/ MainDiningDollars
    \/ MainPrint

SpecMain == InitMain /\ [][NextMain]_vars

-----------------------------------------------------------------------------
(* Claims about the __main__ script.                                       *)

MainOrder ==
    <<"get_login_credentials", "login", "get_self_service_page", "find_link",
      "correct_link", "get", "get_dining_dollars", "print">>

\* the href of the link __main__ finds
FoundHref(d) == d.links[Min(MatchingLinks(d, HUSKY_LINK))].href

\* what step k of MainOrder needs in order not to fail
StepSucceeds(k) ==
    CASE k = 1 -> file_exists /\ LineCount(file_text) = 2
      [] k = 2 -> driver.login_form
      [] k = 3 -> TabsWellFormed(driver) /\ ExactTabs(driver) # {}
      [] k = 4 -> MatchingLinks(driver, HUSKY_LINK) # {}
      [] k = 5 -> /\ MatchingLinks(driver, HUSKY_LINK) # {}
                  /\ \/ ~Contains(JS_OPENWIN, FoundHref(driver))
                     \/ HasAbsoluteUrl(FoundHref(driver))
      [] k = 6 -> driver.loads
      [] k = 7 -> /\ driver.title = BALANCES_TITLE
                  /\ \A t \in 1..Len(driver.tables) :
                        driver.tables[t].titled => Len(driver.tables[t].cells) % 2 = 0
      [] OTHER -> TRUE

\* C10: the calls of a run are a prefix of the fixed order (each at most
\* once, none retried); a call is made only when every call before it
\* succeeded, so a failure (find_link finding nothing and the title assertion
\* included) ends the run with nothing printed; only a run of all the steps
\* prints, once.
C10_FixedOrderAbortOnFailure ==
    /\ Len(trace) <= Len(MainOrder)
    /\ trace = SubSeq(MainOrder, 1, Len(trace))
    /\ \A k \in 1..Len(trace) : \A j \in 1..(k - 1) : StepSucceeds(j)
    /\ (\E k \in 1..Len(trace) : ~StepSucceeds(k))
          => (pc = "aborted" /\ err # NoError /\ stdout = <<>>)
    /\ pc = "aborted" <=> err # NoError
    /\ stdout # <<>> => (pc = "exit" /\ trace = MainOrder /\ Len(stdout) = 1)

C10_Witness ==
    /\ pc = "aborted"
    /\ trace = SubSeq(MainOrder, 1, 4)
    /\ err = "AttributeError"
    /\ stdout = <<>>

C10_WitnessTitle ==
    /\ pc = "aborted"
    /\ trace = SubSeq(MainOrder, 1, 7)
    /\ driver.title # BALANCES_TITLE
    /\ err = "AssertionError"
    /\ stdout = <<>>

C10_WitnessPrinted ==
    /\ pc = "exit"
    /\ trace = MainOrder
    /\ stdout = <<"42.00">>

====
